---- MODULE Spec2Model ----
(***************************************************************************)
(* A model of generate_qrcode.py: the validation of the encoder            *)
(* parameters, the choice of the error correction level, the choice of     *)
(* the image factory, the write of the image, and main's pipeline.         *)
(*                                                                         *)
(* Python values are modelled as follows.                                  *)
(*   - An optional value (T | None) is a sequence: <<>> is None and <<v>>  *)
(*     is the value v.                                                     *)
(*   - An ErrorCorrectionT value is a record [isEnum, value]: a member of  *)
(*     ErrorCorrectionEnum has isEnum = TRUE, a plain int isEnum = FALSE.  *)
(*   - The data argument is a record [isList, text, items]: a str has      *)
(*     isList = FALSE and its text; a list of str has isList = TRUE and    *)
(*     its items.                                                          *)
(*   - An exception is a record [type, msg, cause], msg being the pieces   *)
(*     its message is formatted from, cause the optional __cause__.        *)
(*   - A line printed is a pair <<what, parameter>>.                      *)
(* The qrcode library is the environment: the QRCode object records the    *)
(* calls made on it, and whether make, make_image and save fail is chosen  *)
(* by the environment.                                                     *)
(***************************************************************************)
EXTENDS Integers, Sequences, FiniteSets, TLC

VARIABLES pc, args, error_correction, qrcode, img, stdout, stderr, raised,
          save_calls, returned

vars == <<pc, args, error_correction, qrcode, img, stdout, stderr, raised,
          save_calls, returned>>

(***************************************************************************)
(* Program constants                                                       *)
(***************************************************************************)
BORDER_PX_MINIMUM == 4
BORDER_PX_DEFAULT == 5
BOX_SIZE_PX_DEFAULT == 10
VERSION_MAXIMUM == 40

ERROR_CORRECT_M == [isEnum |-> TRUE, value |-> 0]
ERROR_CORRECT_L == [isEnum |-> TRUE, value |-> 1]
ERROR_CORRECT_H == [isEnum |-> TRUE, value |-> 2]
ERROR_CORRECT_Q == [isEnum |-> TRUE, value |-> 3]

ErrorCorrectionEnum ==
    {ERROR_CORRECT_M, ERROR_CORRECT_L, ERROR_CORRECT_H, ERROR_CORRECT_Q}

(***************************************************************************)
(* Bounds of the model                                                     *)
(***************************************************************************)
\* how far beyond the ends of a legal range the integer inputs are drawn
Margin == 2
\* the largest number of positional data tokens on the command line
MaxTokens == 2

(***************************************************************************)
(* Python values                                                           *)
(***************************************************************************)
None == <<>>
Some(v) == <<v>>
IsNone(o) == o = <<>>

PlainInt(n) == [isEnum |-> FALSE, value |-> n]

Str(t) == [isList |-> FALSE, text |-> t, items |-> <<>>]
List(xs) == [isList |-> TRUE, text |-> "", items |-> xs]

Exc(type, msg, cause) == [type |-> type, msg |-> msg, cause |-> cause]
Line(what, param) == <<what, param>>

\* the outcome of a call: the exception it raised or the value it returned,
\* and the lines it printed
Raise(e, out, err) == [raised |-> Some(e), ret |-> None, stdout |-> out, stderr |-> err]
Return(v, out, err) == [raised |-> None, ret |-> Some(v), stdout |-> out, stderr |-> err]

\* print(...) under "if debug:"
Debug(debug, what, param) == IF debug THEN <<Line(what, param)>> ELSE <<>>

(***************************************************************************)
(* get_error_correction_constant                                           *)
(***************************************************************************)
\* a faulty variant: the upper end of each interval falls into the next one
get_error_correction_constant_lt(desired_error_p, debug) ==
    LET d0 == Debug(debug, "desired_error_p", ToString(desired_error_p))
    IN  IF desired_error_p < 0 \/ desired_error_p > 100
        THEN Raise(Exc("ValueError",
                       <<"Argument desired_error_p must be in range 0-100",
                         ToString(desired_error_p)>>, None), d0, <<>>)
        ELSE IF desired_error_p < 7
        THEN Return(ERROR_CORRECT_L, d0 \o Debug(debug, "using ERROR_CORRECT_L", ""), <<>>)
        ELSE IF desired_error_p < 15
        THEN Return(ERROR_CORRECT_M, d0 \o Debug(debug, "using ERROR_CORRECT_M", ""), <<>>)
        ELSE IF desired_error_p < 25
        THEN Return(ERROR_CORRECT_Q, d0 \o Debug(debug, "using ERROR_CORRECT_Q", ""), <<>>)
        ELSE IF desired_error_p > 30
        THEN Return(ERROR_CORRECT_H, d0,
                    <<Line("WARNING: above the max supported value (30)",
                           ToString(desired_error_p))>>)
        ELSE Return(ERROR_CORRECT_H,
                    d0 \o Debug(debug, "using ERROR_CORRECT_H", ToString(desired_error_p)),
                    <<>>)

\* a faulty variant: the members with the codes 0 and 1 are taken for one another
get_error_correction_constant_swapped(desired_error_p, debug) ==
    LET d0 == Debug(debug, "desired_error_p", ToString(desired_error_p))
    IN  IF desired_error_p < 0 \/ desired_error_p > 100
        THEN Raise(Exc("ValueError",
                       <<"Argument desired_error_p must be in range 0-100",
                         ToString(desired_error_p)>>, None), d0, <<>>)
        ELSE IF desired_error_p <= 7
        THEN Return(ERROR_CORRECT_M, d0 \o Debug(debug, "using ERROR_CORRECT_L", ""), <<>>)
        ELSE IF desired_error_p <= 15
        THEN Return(ERROR_CORRECT_L, d0 \o Debug(debug, "using ERROR_CORRECT_M", ""), <<>>)
        ELSE IF desired_error_p <= 25
        THEN Return(ERROR_CORRECT_Q, d0 \o Debug(debug, "using ERROR_CORRECT_Q", ""), <<>>)
        ELSE IF desired_error_p > 30
        THEN Return(ERROR_CORRECT_H, d0,
                    <<Line("WARNING: above the max supported value (30)",
                           ToString(desired_error_p))>>)
        ELSE Return(ERROR_CORRECT_H,
                    d0 \o Debug(debug, "using ERROR_CORRECT_H", ToString(desired_error_p)),
                    <<>>)

get_error_correction_constant(desired_error_p, debug) ==
    LET d0 == Debug(debug, "desired_error_p", ToString(desired_error_p))
    IN  IF desired_error_p < 0 \/ desired_error_p > 100
        THEN Raise(Exc("ValueError",
                       <<"Argument desired_error_p must be in range 0-100",
                         ToString(desired_error_p)>>, None), d0, <<>>)
        ELSE IF desired_error_p <= 7
        THEN Return(ERROR_CORRECT_L, d0 \o Debug(debug, "using ERROR_CORRECT_L", ""), <<>>)
        ELSE IF desired_error_p <= 15
        THEN Return(ERROR_CORRECT_M, d0 \o Debug(debug, "using ERROR_CORRECT_M", ""), <<>>)
        ELSE IF desired_error_p <= 25
        THEN Return(ERROR_CORRECT_Q, d0 \o Debug(debug, "using ERROR_CORRECT_Q", ""), <<>>)
        ELSE IF desired_error_p > 30
        THEN Return(ERROR_CORRECT_H, d0,
                    <<Line("WARNING: above the max supported value (30)",
                           ToString(desired_error_p))>>)
        ELSE Return(ERROR_CORRECT_H,
                    d0 \o Debug(debug, "using ERROR_CORRECT_H", ToString(desired_error_p)),
                    <<>>)

(***************************************************************************)
(* generate_qrcode                                                         *)
(***************************************************************************)
\* the truth value of an "int | None" in a condition: None and 0 are falsy
TruthyInt(o) == ~IsNone(o) /\ o[1] # 0
\* the truth value of a "str | None" in a condition: None and "" are falsy
TruthyStr(o) == ~IsNone(o) /\ o[1] # ""

\* str(version) in an f-string
VersionText(version) == IF IsNone(version) THEN "None" ELSE ToString(version[1])

\* a faulty variant: the minimum itself is refused
border_below_minimum_le(border) == border <= BORDER_PX_MINIMUM

\* the condition of line 70
border_below_minimum(border) == border < BORDER_PX_MINIMUM

\* the set the assertion of line 79 tests membership of: range() excludes its
\* end. (The assertion is taken as executed: the interpreter runs without -O.)
version_range == 1 .. (VERSION_MAXIMUM - 1)

\* line 103
make_kwargs(version) == [fit |-> IF IsNone(version) THEN TRUE ELSE FALSE]

\* qr.QRCode(version=..., error_correction=..., box_size=..., border=...): the
\* object of the library, with the calls made on it so far
QRCode(version, ec, box_size, border) ==
    [version |-> version, error_correction |-> ec, box_size |-> box_size,
     border |-> border, add_data_calls |-> <<>>, make_calls |-> <<>>,
     make_image_calls |-> <<>>]

\* a faulty variant: a make that fails at a fixed version is made again with fit
generate_qrcode_retry(data, ec, box_size, border, version, debug, overflow) ==
    IF border_below_minimum(border)
    THEN [raised |-> Some(Exc("ValueError",
                              <<"Argument 'border' has a minimum value",
                                ToString(BORDER_PX_MINIMUM), ToString(border)>>, None)),
          ret |-> None, stdout |-> <<>>, stderr |-> <<>>, qr |-> None]
    ELSE IF TruthyInt(version) /\ version[1] \notin version_range
    THEN [raised |-> Some(Exc("ValueError",
                              <<"Invalid version - must be in range 1 ->",
                                ToString(version[1]), ToString(VERSION_MAXIMUM)>>,
                              Some(Exc("AssertionError", <<>>, None)))),
          ret |-> None, stdout |-> <<>>, stderr |-> <<>>, qr |-> None]
    ELSE IF ~ec.isEnum /\ PlainInt(ec.value) \notin
                              {PlainInt(m.value) : m \in ErrorCorrectionEnum}
    THEN [raised |-> Some(Exc("ValueError",
                              <<"Invalid error correction value - must be in range 0 ->",
                                ToString(ec.value), ToString(ERROR_CORRECT_Q.value)>>,
                              Some(Exc("ValueError", <<>>, None)))),
          ret |-> None, stdout |-> <<>>, stderr |-> <<>>, qr |-> None]
    ELSE
      LET out  == Debug(debug, "Generating QRCode", VersionText(version))
                  \o Debug(debug, "Adding data", "")
                  \o Debug(debug, "Using qrcode.make() kwargs", "")
          q0   == QRCode(version, ec.value, box_size, border)
          q1   == [q0 EXCEPT !.add_data_calls = Append(@, data)]
          q2   == [q1 EXCEPT !.make_calls = Append(@, make_kwargs(version))]
          q3   == [q2 EXCEPT !.make_calls = Append(@, [fit |-> TRUE])]
      IN  IF overflow /\ ~IsNone(version)
          THEN [raised |-> None, ret |-> Some(q3), stdout |-> out, stderr |-> <<>>,
                qr |-> Some(q3)]
          ELSE IF overflow
          THEN [raised |-> Some(Exc("DataOverflowError", <<>>, None)),
                ret |-> None, stdout |-> out, stderr |-> <<>>, qr |-> Some(q2)]
          ELSE [raised |-> None, ret |-> Some(q2), stdout |-> out, stderr |-> <<>>,
                qr |-> Some(q2)]

\* overflow: the library's make raises DataOverflowError (the data does not fit)
generate_qrcode(data, ec, box_size, border, version, debug, overflow) ==
    IF border_below_minimum(border)
    THEN [raised |-> Some(Exc("ValueError",
                              <<"Argument 'border' has a minimum value",
                                ToString(BORDER_PX_MINIMUM), ToString(border)>>, None)),
          ret |-> None, stdout |-> <<>>, stderr |-> <<>>, qr |-> None]
    ELSE IF TruthyInt(version) /\ version[1] \notin version_range
    THEN [raised |-> Some(Exc("ValueError",
                              <<"Invalid version - must be in range 1 ->",
                                ToString(version[1]), ToString(VERSION_MAXIMUM)>>,
                              Some(Exc("AssertionError", <<>>, None)))),
          ret |-> None, stdout |-> <<>>, stderr |-> <<>>, qr |-> None]
    ELSE IF ~ec.isEnum /\ PlainInt(ec.value) \notin
                              {PlainInt(m.value) : m \in ErrorCorrectionEnum}
    THEN [raised |-> Some(Exc("ValueError",
                              <<"Invalid error correction value - must be in range 0 ->",
                                ToString(ec.value), ToString(ERROR_CORRECT_Q.value)>>,
                              Some(Exc("ValueError", <<>>, None)))),
          ret |-> None, stdout |-> <<>>, stderr |-> <<>>, qr |-> None]
    ELSE
      LET out  == Debug(debug, "Generating QRCode", VersionText(version))
                  \o Debug(debug, "Adding data", "")
                  \o Debug(debug, "Using qrcode.make() kwargs", "")
          q0   == QRCode(version, ec.value, box_size, border)
          q1   == [q0 EXCEPT !.add_data_calls = Append(@, data)]
          q2   == [q1 EXCEPT !.make_calls = Append(@, make_kwargs(version))]
      IN  IF overflow
          THEN [raised |-> Some(Exc("DataOverflowError", <<>>, None)),
                ret |-> None, stdout |-> out, stderr |-> <<>>, qr |-> Some(q2)]
          ELSE [raised |-> None, ret |-> Some(q2), stdout |-> out, stderr |-> <<>>,
                qr |-> Some(q2)]

(***************************************************************************)
(* get_image_factory, get_image                                            *)
(***************************************************************************)
get_image_factory(factory_type) ==
    CASE factory_type = "svg"      -> Some("SvgImage")
      [] factory_type = "svgpath"  -> Some("SvgPathFillImage")
      [] factory_type = "svgfill"  -> Some("SvgFillImage")
      [] factory_type = "png"      -> Some("PymagingImage")
      [] factory_type = "pymaging" -> Some("PymagingImage")
      [] OTHER                     -> None

\* the keyword arguments of a make_image call: keys are the keywords passed
FactoryKwargs(image_factory) ==
    [keys |-> {"image_factory"}, image_factory |-> image_factory,
     fill_color |-> None, back_color |-> None]
ColorKwargs(fill_color, back_color) ==
    [keys |-> {"fill_color", "back_color"}, image_factory |-> None,
     fill_color |-> fill_color, back_color |-> back_color]

\* qrcode.make_image(**kwargs): the call is recorded on the QRCode object; the
\* image remembers what it was made with. render_fails: the library raises
make_image(q, kwargs, render_fails, out, err) ==
    LET q1 == [q EXCEPT !.make_image_calls = Append(@, kwargs)]
    IN  IF render_fails
        THEN [raised |-> Some(Exc("Exception", <<"make_image">>, None)), ret |-> None,
              stdout |-> out, stderr |-> err, qr |-> q1]
        ELSE [raised |-> None, ret |-> Some([made_with |-> kwargs]),
              stdout |-> out, stderr |-> err, qr |-> q1]

\* a faulty variant: the colors are passed along with the factory, unannounced
get_image_with_colors(q, factory_type, fill_color, back_color, debug, render_fails) ==
    LET default(out, err) ==
            make_image(q, ColorKwargs(fill_color, back_color), render_fails,
                       out \o Debug(debug, "Using default factory type", ""), err)
    IN  IF TruthyStr(factory_type)
        THEN LET d0 == Debug(debug, "Using factory", factory_type[1])
                 image_factory == get_image_factory(factory_type[1])
             IN  IF ~IsNone(image_factory)
                 THEN make_image(q, [FactoryKwargs(image_factory) EXCEPT
                                       !.keys = @ \cup {"fill_color", "back_color"},
                                       !.fill_color = fill_color,
                                       !.back_color = back_color],
                                 render_fails, d0, <<>>)
                 ELSE default(d0, <<Line("WARNING: Unknown image factory type. Using default.",
                                         "None")>>)
        ELSE default(<<>>, <<>>)

\* a faulty variant: an unknown factory type falls back without a word
get_image_silent_fallback(q, factory_type, fill_color, back_color, debug, render_fails) ==
    LET default(out, err) ==
            make_image(q, ColorKwargs(fill_color, back_color), render_fails,
                       out \o Debug(debug, "Using default factory type", ""), err)
    IN  IF TruthyStr(factory_type)
        THEN LET d0 == Debug(debug, "Using factory", factory_type[1])
                 image_factory == get_image_factory(factory_type[1])
             IN  IF ~IsNone(image_factory)
                 THEN make_image(q, FactoryKwargs(image_factory), render_fails, d0,
                                 <<Line("WARNING: Ignoring specified colors",
                                        factory_type[1])>>)
                 ELSE default(d0, <<>>)
        ELSE default(<<>>, <<>>)

get_image(q, factory_type, fill_color, back_color, debug, render_fails) ==
    LET default(out, err) ==
            make_image(q, ColorKwargs(fill_color, back_color), render_fails,
                       out \o Debug(debug, "Using default factory type", ""), err)
    IN  IF TruthyStr(factory_type)
        THEN LET d0 == Debug(debug, "Using factory", factory_type[1])
                 image_factory == get_image_factory(factory_type[1])
             IN  IF ~IsNone(image_factory)
                 THEN make_image(q, FactoryKwargs(image_factory), render_fails, d0,
                                 <<Line("WARNING: Ignoring specified colors",
                                        factory_type[1])>>)
                 ELSE \* the f-string formats image_factory, which is None here
                      default(d0, <<Line("WARNING: Unknown image factory type. Using default.",
                                         "None")>>)
        ELSE default(<<>>, <<>>)

(***************************************************************************)
(* write_image                                                             *)
(***************************************************************************)
\* what img.save(filename) can do: succeed, or raise one of the exceptions the
\* handlers of write_image name. (An exception of another class passes through
\* write_image untouched; one that is both a ValueError and an OSError is taken
\* by the first handler. Neither is among the outcomes drawn here.)
SaveOutcomes == {"ok", "AttributeError", "ValueError", "OSError"}

SaveError(type) == Exc(type, <<"save">>, None)

\* a faulty variant: an OSError of save is dropped
write_image_swallow(image, filename, save_outcome) ==
    IF save_outcome = "ok"
    THEN [raised |-> None, ret |-> Some(None),
          stdout |-> <<Line("Successfully wrote QR code to file", filename)>>,
          stderr |-> <<>>, saves |-> <<[filename |-> filename, outcome |-> save_outcome]>>]
    ELSE IF save_outcome \in {"AttributeError", "ValueError"}
    THEN [raised |-> Some(SaveError(save_outcome)), ret |-> None, stdout |-> <<>>,
          stderr |-> <<Line("ERROR: Could not write out file", filename),
                       Line("Traceback", save_outcome)>>,
          saves |-> <<[filename |-> filename, outcome |-> save_outcome]>>]
    ELSE [raised |-> None, ret |-> Some(None),
          stdout |-> <<>>, stderr |-> <<>>, saves |-> <<[filename |-> filename, outcome |-> save_outcome]>>]

write_image(image, filename, save_outcome) ==
    IF save_outcome = "ok"
    THEN [raised |-> None, ret |-> Some(None),
          stdout |-> <<Line("Successfully wrote QR code to file", filename)>>,
          stderr |-> <<>>, saves |-> <<[filename |-> filename, outcome |-> save_outcome]>>]
    ELSE IF save_outcome \in {"AttributeError", "ValueError"}
    THEN [raised |-> Some(SaveError(save_outcome)), ret |-> None, stdout |-> <<>>,
          stderr |-> <<Line("ERROR: Could not write out file", filename),
                       Line("Traceback", save_outcome)>>,
          saves |-> <<[filename |-> filename, outcome |-> save_outcome]>>]
    ELSE [raised |-> Some(Exc("OSError", <<"ERROR: Could not write out file", filename>>,
                              Some(SaveError(save_outcome)))),
          ret |-> None, stdout |-> <<>>, stderr |-> <<>>, saves |-> <<[filename |-> filename, outcome |-> save_outcome]>>]

(***************************************************************************)
(* Inputs                                                                  *)
(***************************************************************************)
Range(q) == {q[i] : i \in 1..Len(q)}
Optional(S) == {None} \cup {Some(v) : v \in S}

\* every percentage of the legal range and Margin more at each end
Percents == (0 - Margin) .. (100 + Margin)
\* the percentages at the ends of each interval of the mapping
PercentEdges == {-1, 0, 7, 8, 15, 16, 25, 26, 30, 31, 100, 101}
Borders == (BORDER_PX_MINIMUM - Margin) .. (BORDER_PX_MINIMUM + Margin)
Versions == Optional((1 - Margin) .. (VERSION_MAXIMUM + Margin))
VersionEdges == Optional({-1, 0, 1, VERSION_MAXIMUM - 1, VERSION_MAXIMUM,
                          VERSION_MAXIMUM + 1})
BoxSizes == {1, BOX_SIZE_PX_DEFAULT}
ErrorCorrections == ErrorCorrectionEnum \cup {PlainInt(n) : n \in -1 .. 4}
FactoryTypes == Optional({"", "svg", "svgpath", "svgfill", "png", "pymaging",
                          "jpeg", "SVG"})
FillColors == {"black", "red"}
BackColors == {"white"}
Tokens == {"a", "b"}
\* nargs="+": one or more tokens
TokenLists == UNION {[1..n -> Tokens] : n \in 1..MaxTokens}
Filenames == {"out.png"}

(***************************************************************************)
(* main: one run of the command line                                       *)
(***************************************************************************)
\* the namespace parse_args returns (lines 238-304)
MainArgs ==
    [error_correction : PercentEdges, border_size : {BORDER_PX_MINIMUM - 1,
                                                     BORDER_PX_MINIMUM,
                                                     BORDER_PX_DEFAULT},
     box_size : {BOX_SIZE_PX_DEFAULT}, fill_color : FillColors,
     back_color : BackColors, factory_type : FactoryTypes,
     version : VersionEdges, debug : BOOLEAN, output_file : Filenames,
     data : TokenLists]

Init ==
    /\ pc = "resolve"
    /\ args \in MainArgs
    /\ error_correction = None
    /\ qrcode = None
    /\ img = None
    /\ stdout = <<>>
    /\ stderr = <<>>
    /\ raised = None
    /\ save_calls = <<>>
    /\ returned = <<>>

\* an exception a call raises is not caught in main: it ends the run
After(call, next) == IF IsNone(call.raised) THEN next ELSE "raised"

\* line 305
Resolve ==
    /\ pc = "resolve"
    /\ LET r == get_error_correction_constant(args.error_correction, args.debug)
       IN  /\ error_correction' = r.ret
           /\ stdout' = stdout \o r.stdout
           /\ stderr' = stderr \o r.stderr
           /\ raised' = r.raised
           /\ pc' = After(r, "build")
    /\ UNCHANGED <<args, qrcode, img, save_calls, returned>>

\* lines 306-313: args.data, the list of tokens, is the data argument
Build ==
    /\ pc = "build"
    /\ \E overflow \in BOOLEAN :
         LET r == generate_qrcode(List(args.data), error_correction[1], args.box_size,
                                  args.border_size, args.version, args.debug, overflow)
         IN  /\ qrcode' = r.qr
             /\ stdout' = stdout \o r.stdout
             /\ stderr' = stderr \o r.stderr
             /\ raised' = r.raised
             /\ pc' = After(r, "render")
    /\ UNCHANGED <<args, error_correction, img, save_calls, returned>>

\* line 314
Render ==
    /\ pc = "render"
    /\ \E render_fails \in BOOLEAN :
         LET r == get_image(qrcode[1], args.factory_type, Some(args.fill_color),
                            Some(args.back_color), args.debug, render_fails)
         IN  /\ qrcode' = Some(r.qr)
             /\ img' = r.ret
             /\ stdout' = stdout \o r.stdout
             /\ stderr' = stderr \o r.stderr
             /\ raised' = r.raised
             /\ pc' = After(r, "write")
    /\ UNCHANGED <<args, error_correction, save_calls, returned>>

\* line 315
Write ==
    /\ pc = "write"
    /\ \E save_outcome \in SaveOutcomes :
         LET r == write_image(img[1], args.output_file, save_outcome)
         IN  /\ save_calls' = save_calls \o r.saves
             /\ stdout' = stdout \o r.stdout
             /\ stderr' = stderr \o r.stderr
             /\ raised' = r.raised
             /\ pc' = After(r, "done")
    /\ UNCHANGED <<args, error_correction, qrcode, img, returned>>

Next == Resolve \/ Build \/ Render \/ Write

Spec == Init /\ [][Next]_vars

(***************************************************************************)
(* generate_qrcode called on its own                                       *)
(***************************************************************************)
GenArgs ==
    [data : {Str("a"), List(<<"a">>), List(<<"a", "b">>)},
     error_correction : ErrorCorrections, box_size : BoxSizes, border : Borders,
     version : Versions, debug : BOOLEAN]

InitGen ==
    /\ pc = "call"
    /\ args \in GenArgs
    /\ error_correction = None
    /\ qrcode = None
    /\ img = None
    /\ stdout = <<>>
    /\ stderr = <<>>
    /\ raised = None
    /\ save_calls = <<>>
    /\ returned = <<>>

CallGenerateQrcode ==
    /\ pc = "call"
    /\ \E overflow \in BOOLEAN :
         LET r == generate_qrcode(args.data, args.error_correction, args.box_size,
                                  args.border, args.version, args.debug, overflow)
         IN  /\ qrcode' = r.qr
             /\ returned' = Append(returned, r.ret)
             /\ stdout' = stdout \o r.stdout
             /\ stderr' = stderr \o r.stderr
             /\ raised' = r.raised
             /\ pc' = After(r, "returned")
    /\ UNCHANGED <<args, error_correction, img, save_calls>>

NextGen == CallGenerateQrcode

SpecGen == InitGen /\ [][NextGen]_vars

(***************************************************************************)
(* get_error_correction_constant called on its own, for two percentages    *)
(***************************************************************************)
InitEC ==
    /\ pc = "call"
    /\ args \in [desired_error_p : Percents \X Percents, debug : BOOLEAN]
    /\ error_correction = None
    /\ qrcode = None
    /\ img = None
    /\ stdout = <<>>
    /\ stderr = <<>>
    /\ raised = None
    /\ save_calls = <<>>
    /\ returned = <<>>

CallGetErrorCorrectionConstant ==
    /\ pc = "call"
    /\ LET r == get_error_correction_constant(
                    args.desired_error_p[Len(returned) + 1], args.debug)
       IN  /\ returned' = Append(returned, [raised |-> r.raised, ret |-> r.ret])
           /\ stdout' = stdout \o r.stdout
           /\ stderr' = stderr \o r.stderr
           /\ pc' = IF Len(returned) + 1 = Len(args.desired_error_p)
                    THEN "returned" ELSE "call"
    /\ UNCHANGED <<args, error_correction, qrcode, img, raised, save_calls>>

NextEC == CallGetErrorCorrectionConstant

SpecEC == InitEC /\ [][NextEC]_vars

(***************************************************************************)
(* get_image called on its own                                             *)
(***************************************************************************)
\* QRCode objects as generate_qrcode returns them
MadeQRCodes ==
    {generate_qrcode(Str("a"), ERROR_CORRECT_Q, BOX_SIZE_PX_DEFAULT, b, v,
                     FALSE, FALSE).ret[1] :
        b \in {BORDER_PX_MINIMUM, BORDER_PX_DEFAULT}, v \in {None, Some(1)}}

InitImg ==
    /\ pc = "call"
    /\ args \in [factory_type : FactoryTypes,
                 fill_color : Optional(FillColors),
                 back_color : Optional(BackColors), debug : BOOLEAN]
    /\ error_correction = None
    /\ qrcode \in {Some(q) : q \in MadeQRCodes}
    /\ img = None
    /\ stdout = <<>>
    /\ stderr = <<>>
    /\ raised = None
    /\ save_calls = <<>>
    /\ returned = <<>>

CallGetImage ==
    /\ pc = "call"
    /\ \E render_fails \in BOOLEAN :
         LET r == get_image(qrcode[1], args.factory_type, args.fill_color,
                            args.back_color, args.debug, render_fails)
         IN  /\ qrcode' = Some(r.qr)
             /\ img' = r.ret
             /\ stdout' = stdout \o r.stdout
             /\ stderr' = stderr \o r.stderr
             /\ raised' = r.raised
             /\ pc' = After(r, "returned")
    /\ UNCHANGED <<args, error_correction, save_calls, returned>>

NextImg == CallGetImage

SpecImg == InitImg /\ [][NextImg]_vars

(***************************************************************************)
(* Properties                                                              *)
(***************************************************************************)
\* ErrorCorrectionEnum(x) succeeds: x is a member or the code of one
ValidErrorCorrection(ec) == ec.isEnum \/ ec.value \in 0..3
IsValueError(r) == ~IsNone(r) /\ r[1].type = "ValueError"
IsBorderError(r) ==
    IsValueError(r) /\ r[1].msg[1] = "Argument 'border' has a minimum value"
MakeCalls(q) == IF IsNone(q) THEN <<>> ELSE q[1].make_calls
AddDataCalls(q) == IF IsNone(q) THEN <<>> ELSE q[1].add_data_calls
MakeImageCalls(q) == IF IsNone(q) THEN <<>> ELSE q[1].make_image_calls

\* C1: generate_qrcode, given a valid border and error correction, accepts
\* every version in [1,40]: it raises no ValueError, constructs the QRCode with
\* exactly that version and calls make with fit=False; given version None it
\* constructs the QRCode with None and calls make with fit=True. The fit flag
\* is True if and only if the version is None.
C1_VersionAcceptedAndFit ==
    (pc # "call" /\ args.border >= 4 /\ ValidErrorCorrection(args.error_correction)) =>
        /\ IsNone(args.version) =>
              /\ ~IsNone(qrcode)
              /\ IsNone(qrcode[1].version)
              /\ MakeCalls(qrcode) = <<[fit |-> TRUE]>>
        /\ (~IsNone(args.version) /\ args.version[1] \in 1..40) =>
              /\ ~IsValueError(raised)
              /\ ~IsNone(qrcode)
              /\ qrcode[1].version = args.version
              /\ MakeCalls(qrcode) = <<[fit |-> FALSE]>>
        /\ \A i \in 1..Len(MakeCalls(qrcode)) :
              MakeCalls(qrcode)[i].fit <=> IsNone(args.version)

\* C2: generate_qrcode, given an integer version outside [1,40], raises a
\* ValueError and the QRCode is never constructed: no version outside the
\* range reaches the library.
C2_VersionOutsideRangeRejected ==
    (pc # "call" /\ ~IsNone(args.version) /\ args.version[1] \notin 1..40) =>
        /\ IsValueError(raised)
        /\ IsNone(qrcode)

RECURSIVE Join(_)
Join(tokens) ==
    IF Len(tokens) = 1 THEN tokens[1]
    ELSE tokens[1] \o " " \o Join(Tail(tokens))

\* C3: the payload main hands to generate_qrcode, and generate_qrcode to
\* add_data, is the one text that joins the data tokens of the command line,
\* never the list of tokens.
C3_PayloadIsJoinedText ==
    \A i \in 1..Len(AddDataCalls(qrcode)) :
        /\ ~AddDataCalls(qrcode)[i].isList
        /\ AddDataCalls(qrcode)[i] = Str(Join(args.data))

\* C4: get_error_correction_constant returns L for every p in [0,7], M for
\* [8,15], Q for [16,25], H for [26,100], and raises a ValueError, returning
\* nothing, for every p below 0 or above 100.
C4_PercentageToLevel ==
    \A i \in 1..Len(returned) :
        LET p == args.desired_error_p[i]
            r == returned[i]
        IN  /\ p \in 0..7    => r = [raised |-> None, ret |-> Some(ERROR_CORRECT_L)]
            /\ p \in 8..15   => r = [raised |-> None, ret |-> Some(ERROR_CORRECT_M)]
            /\ p \in 16..25  => r = [raised |-> None, ret |-> Some(ERROR_CORRECT_Q)]
            /\ p \in 26..100 => r = [raised |-> None, ret |-> Some(ERROR_CORRECT_H)]
            /\ (p < 0 \/ p > 100) => IsValueError(r.raised) /\ IsNone(r.ret)

C4_Witness ==
    /\ pc = "returned"
    /\ args.desired_error_p = <<7, 101>>
    /\ returned[1].ret = Some(ERROR_CORRECT_L)
    /\ IsValueError(returned[2].raised)

\* both calls returned a level, for percentages p1 <= p2 of [0,100]
TwoLevelsInOrder ==
    /\ Len(returned) = 2
    /\ args.desired_error_p[1] \in 0..100
    /\ args.desired_error_p[2] \in 0..100
    /\ args.desired_error_p[1] <= args.desired_error_p[2]

\* C10 as stated: the members compare L < M < Q < H as members of the IntEnum,
\* and for p1 <= p2 in [0,100] the level returned for p1 is less than or equal
\* to the level returned for p2 in that comparison.
C10_MonotoneInEnumComparison ==
    TwoLevelsInOrder =>
        /\ ERROR_CORRECT_L.value < ERROR_CORRECT_M.value
        /\ ERROR_CORRECT_M.value < ERROR_CORRECT_Q.value
        /\ ERROR_CORRECT_Q.value < ERROR_CORRECT_H.value
        /\ returned[1].ret[1].value <= returned[2].ret[1].value

\* the percentage of errors a level recovers (lines 127-130): the order by
\* redundancy
Redundancy(level) ==
    CASE level = ERROR_CORRECT_L -> 7
      [] level = ERROR_CORRECT_M -> 15
      [] level = ERROR_CORRECT_Q -> 25
      [] level = ERROR_CORRECT_H -> 30

\* C10, amended: the members compare M < L < H < Q as members of the IntEnum
\* (their codes are 0, 1, 2, 3), which is not the order by redundancy; for
\* p1 <= p2 in [0,100] the level returned for p1 has at most the redundancy of
\* the level returned for p2.
C10_MonotoneInRedundancy ==
    TwoLevelsInOrder =>
        /\ ERROR_CORRECT_M.value < ERROR_CORRECT_L.value
        /\ ERROR_CORRECT_L.value < ERROR_CORRECT_H.value
        /\ ERROR_CORRECT_H.value < ERROR_CORRECT_Q.value
        /\ Redundancy(returned[1].ret[1]) <= Redundancy(returned[2].ret[1])

C10_Witness ==
    /\ TwoLevelsInOrder
    /\ args.desired_error_p = <<7, 8>>
    /\ returned[1].ret = Some(ERROR_CORRECT_L)
    /\ returned[2].ret = Some(ERROR_CORRECT_M)
    /\ returned[1].ret[1].value > returned[2].ret[1].value

KnownBackends == {"svg", "svgpath", "svgfill", "png", "pymaging"}
IgnoredColorsAdvisory(factory_type) ==
    Line("WARNING: Ignoring specified colors", factory_type)
UnknownFactoryAdvisory ==
    Line("WARNING: Unknown image factory type. Using default.", "None")
\* get_image raised nothing of its own: it returned the image make_image made
\* with kwargs, or make_image itself failed in the library
RenderedOnceWith(kwargs) ==
    /\ MakeImageCalls(qrcode) = <<kwargs>>
    /\ IsNone(raised) => img = Some([made_with |-> kwargs])
    /\ ~IsNone(raised) => raised = Some(Exc("Exception", <<"make_image">>, None))

\* C6: get_image, given a factory type that names a known backend, renders by
\* exactly one make_image call that receives that backend's factory and neither
\* fill_color nor back_color, and prints the advisory that the colors were
\* ignored; the advisory is no error: get_image returns the image.
C6_KnownBackendIgnoresColors ==
    (pc # "call" /\ ~IsNone(args.factory_type)
                 /\ args.factory_type[1] \in KnownBackends) =>
        LET call == MakeImageCalls(qrcode)[1]
        IN  /\ Len(MakeImageCalls(qrcode)) = 1
            /\ call.keys = {"image_factory"}
            /\ ~IsNone(call.image_factory)
            /\ call.image_factory = get_image_factory(args.factory_type[1])
            /\ RenderedOnceWith(call)
            /\ stderr = <<IgnoredColorsAdvisory(args.factory_type[1])>>

C6_Witness ==
    /\ pc = "returned"
    /\ args.factory_type = Some("svgpath")
    /\ args.fill_color = Some("red")
    /\ ~IsNone(img)
    /\ img[1].made_with.image_factory = Some("SvgPathFillImage")
    /\ IgnoredColorsAdvisory("svgpath") \in Range(stderr)

\* C7 as stated: get_image, given a factory type that is set, the empty string
\* included, and names no known backend, prints the unknown-backend advisory and
\* renders by exactly one make_image call on the default backend with the given
\* fill_color and back_color; given no factory type it renders the same way with
\* no advisory.
C7_EverySetUnknownTypeIsAnnounced ==
    pc # "call" =>
        /\ (~IsNone(args.factory_type) /\ args.factory_type[1] \notin KnownBackends) =>
              /\ RenderedOnceWith(ColorKwargs(args.fill_color, args.back_color))
              /\ stderr = <<UnknownFactoryAdvisory>>
        /\ IsNone(args.factory_type) =>
              /\ RenderedOnceWith(ColorKwargs(args.fill_color, args.back_color))
              /\ stderr = <<>>

\* C7, amended: get_image, given a non-empty factory type that names no known
\* backend, prints the unknown-backend advisory and renders by exactly one
\* make_image call on the default backend with the given fill_color and
\* back_color; given no factory type or the empty string it renders the same
\* way with no advisory. Every input yields exactly one make_image call.
C7_NonEmptyUnknownTypeIsAnnounced ==
    pc # "call" =>
        /\ (~IsNone(args.factory_type) /\ args.factory_type[1] # ""
                /\ args.factory_type[1] \notin KnownBackends) =>
              /\ RenderedOnceWith(ColorKwargs(args.fill_color, args.back_color))
              /\ stderr = <<UnknownFactoryAdvisory>>
        /\ (IsNone(args.factory_type) \/ args.factory_type = Some("")) =>
              /\ RenderedOnceWith(ColorKwargs(args.fill_color, args.back_color))
              /\ stderr = <<>>
        /\ Len(MakeImageCalls(qrcode)) = 1

C7_Witness ==
    /\ pc = "returned"
    /\ args.factory_type = Some("jpeg")
    /\ args.fill_color = Some("red")
    /\ stderr = <<UnknownFactoryAdvisory>>
    /\ img = Some([made_with |-> ColorKwargs(Some("red"), args.back_color)])

Confirmation(filename) == Line("Successfully wrote QR code to file", filename)

WriteOutcome ==
    /\ IF save_calls = <<>>
       THEN \A f \in Filenames : Confirmation(f) \notin Range(stdout)
       ELSE LET c == save_calls[1]
            IN  /\ Len(save_calls) = 1
                /\ c.filename = args.output_file
                /\ c.outcome = "ok" =>
                      /\ IsNone(raised)
                      /\ pc = "done"
                      /\ Confirmation(c.filename) \in Range(stdout)
                /\ c.outcome \in {"AttributeError", "ValueError"} =>
                      /\ raised = Some(SaveError(c.outcome))
                      /\ pc = "raised"
                      /\ Line("ERROR: Could not write out file", c.filename)
                             \in Range(stderr)
                      /\ Line("Traceback", c.outcome) \in Range(stderr)
                /\ c.outcome = "OSError" =>
                      /\ ~IsNone(raised)
                      /\ pc = "raised"
                      /\ raised[1].type = "OSError"
                      /\ raised[1] # SaveError("OSError")
                      /\ c.filename \in Range(raised[1].msg)
                      /\ raised[1].cause = Some(SaveError("OSError"))
                /\ Confirmation(c.filename) \in Range(stdout) => c.outcome = "ok"
                /\ c.outcome \in SaveOutcomes

Stages == {"resolve", "build", "render", "write"}

\* a step of main: the next stage in the fixed order, or the end of the run on
\* a failure; each collaborator is touched in its own stage only
StageStep ==
    /\ <<pc, pc'>> \in {<<"resolve", "build">>, <<"build", "render">>,
                        <<"render", "write">>, <<"write", "done">>}
                       \cup {<<s, "raised">> : s \in Stages}
    /\ (pc' = "raised") <=> ~IsNone(raised')
    /\ error_correction' # error_correction => pc = "resolve"
    /\ (AddDataCalls(qrcode') # AddDataCalls(qrcode)
            \/ MakeCalls(qrcode') # MakeCalls(qrcode)) => pc = "build"
    /\ (MakeImageCalls(qrcode') # MakeImageCalls(qrcode) \/ img' # img) => pc = "render"
    /\ save_calls' # save_calls =>
          /\ pc = "write"
          /\ ~IsNone(error_correction) /\ ~IsNone(qrcode) /\ ~IsNone(img)
          /\ IsNone(raised)

StagesAtMostOnce ==
    /\ pc \in {"done", "raised"} => ~ENABLED Next
    /\ Len(AddDataCalls(qrcode)) <= 1
    /\ Len(MakeCalls(qrcode)) <= 1
    /\ Len(MakeImageCalls(qrcode)) <= 1
    /\ Len(save_calls) <= 1
    /\ Confirmation(args.output_file) \in Range(stdout) =>
          /\ pc = "done" /\ IsNone(raised)
          /\ ~IsNone(error_correction)
          /\ Len(MakeCalls(qrcode)) = 1
          /\ Len(MakeImageCalls(qrcode)) = 1 /\ ~IsNone(img)
          /\ Len(save_calls) = 1
    /\ (~IsNone(raised) /\ raised[1].type = "DataOverflowError") =>
          /\ pc = "raised"
          /\ qrcode[1].version = args.version
          /\ MakeCalls(qrcode) = <<[fit |-> IsNone(args.version)]>>
    /\ (~IsNone(args.version) /\ ~IsNone(qrcode)) =>
          \A i \in 1..Len(MakeCalls(qrcode)) : ~MakeCalls(qrcode)[i].fit

\* C9: in every run of main the stages run in the order resolve, build,
\* render, write, each at most once; a failure of a stage ends the run and no
\* later stage runs, so save is called only after resolve, build and render
\* succeeded and the confirmation is printed only when all four succeeded; no
\* stage is tried again, and a make that fails at a fixed version is never made
\* again with another version or with fit=True.
C9_StagesInOrderNoRetry ==
    /\ [][StageStep]_vars
    /\ []StagesAtMostOnce

C9_Witness ==
    /\ pc = "raised"
    /\ args.version = Some(1)
    /\ ~IsNone(raised) /\ raised[1].type = "DataOverflowError"
    /\ MakeCalls(qrcode) = <<[fit |-> FALSE]>>
    /\ IsNone(img)
    /\ save_calls = <<>>

====
